---- MODULE Spec2Model ----
(***************************************************************************)
(* PR review backend: the request handler of main.py, the platform         *)
(* dispatch of git_integration.py and the diff parser, rule engine, scorer *)
(* and recommendation builder of code_analyzer.py.                         *)
(*                                                                         *)
(* Python str values are TLA+ strings; Len, SubSeq and \o act on them      *)
(* character by character, so slicing, splitting, prefix tests and the     *)
(* regular expressions are computed on the characters.                     *)
(***************************************************************************)
EXTENDS Integers, Sequences, FiniteSets, TLC

(***************************************************************************)
(* Bounds of the model.                                                    *)
(***************************************************************************)
MaxDiffLines == 3
MaxAdded == 2
MaxBaseErrors == 7

(***************************************************************************)
(* str primitives.                                                         *)
(***************************************************************************)
At(s, i) ==
    IF 1 <= i /\ i <= Len(s) THEN SubSeq(s, i, i) ELSE ""

\* s[n:] for n >= 0
SliceFrom(s, n) ==
    IF n >= Len(s) THEN "" ELSE SubSeq(s, n + 1, Len(s))

\* s.startswith(p)
StartsWith(s, p) ==
    Len(s) >= Len(p) /\ SubSeq(s, 1, Len(p)) = p

\* s.endswith(p)
EndsWith(s, p) ==
    Len(s) >= Len(p) /\ SubSeq(s, Len(s) - Len(p) + 1, Len(s)) = p

\* the literal lit occupies s[i .. i+Len(lit)-1]
LitAt(s, i, lit) ==
    i >= 1 /\ i + Len(lit) - 1 <= Len(s) /\ SubSeq(s, i, i + Len(lit) - 1) = lit

\* sub in s
Contains(s, sub) ==
    \E i \in 1..(Len(s) + 1) : LitAt(s, i, sub)

UpperChars == <<"A","B","C","D","E","F","G","H","I","J","K","L","M",
                "N","O","P","Q","R","S","T","U","V","W","X","Y","Z">>

LowerChars == <<"a","b","c","d","e","f","g","h","i","j","k","l","m",
                "n","o","p","q","r","s","t","u","v","w","x","y","z">>

DigitChars == {"0","1","2","3","4","5","6","7","8","9"}

UpperSet == {UpperChars[k] : k \in 1..26}

WordSet == UpperSet \cup {LowerChars[k] : k \in 1..26} \cup DigitChars \cup {"_"}

\* the lower-case letter of each upper-case letter
ToLower == [c \in UpperSet |-> LowerChars[CHOOSE k \in 1..26 : UpperChars[k] = c]]

LowerChar(c) == IF c \in UpperSet THEN ToLower[c] ELSE c

RECURSIVE LowerRange(_, _, _)
\* the lowered characters of s[a..b], halving the range
LowerRange(s, a, b) ==
    IF a > b THEN ""
    ELSE IF a = b THEN LowerChar(At(s, a))
    ELSE LET m == (a + b) \div 2
         IN  LowerRange(s, a, m) \o LowerRange(s, m + 1, b)

\* s.lower()
Lower(s) == LowerRange(s, 1, Len(s))

\* the characters \s matches
IsSpace(c) == c \in {" ", "\t", "\r", "\f"}

\* the characters \w matches
IsWord(c) == c \in WordSet

AllSpace(s, a, b) == \A k \in a..b : IsSpace(At(s, k))

AllWord(s, a, b) == \A k \in a..b : IsWord(At(s, k))

\* s.strip()
Strip(s) ==
    IF AllSpace(s, 1, Len(s)) THEN ""
    ELSE LET a == CHOOSE i \in 1..Len(s) :
                    ~IsSpace(At(s, i)) /\ AllSpace(s, 1, i - 1)
             b == CHOOSE j \in 1..Len(s) :
                    ~IsSpace(At(s, j)) /\ AllSpace(s, j + 1, Len(s))
         IN  SubSeq(s, a, b)

\* s.split(sep) for a one-character separator: the pieces between the
\* occurrences of sep, in order
Split(s, sep) ==
    LET seps == {i \in 1..Len(s) : At(s, i) = sep}
        \* position of the k-th separator; 0 and Len(s)+1 stand at the two ends
        pos(k) == IF k = 0 THEN 0
                  ELSE IF k > Cardinality(seps) THEN Len(s) + 1
                  ELSE CHOOSE p \in seps : Cardinality({q \in seps : q < p}) = k - 1
    IN  [k \in 1..(Cardinality(seps) + 1) |->
            IF pos(k - 1) + 1 > pos(k) - 1 THEN ""
            ELSE SubSeq(s, pos(k - 1) + 1, pos(k) - 1)]

RECURSIVE Join(_, _)
\* sep.join(parts)
Join(parts, sep) ==
    IF Len(parts) = 0 THEN ""
    ELSE IF Len(parts) = 1 THEN parts[1]
    ELSE parts[1] \o sep \o Join(Tail(parts), sep)

(***************************************************************************)
(* models.py                                                               *)
(***************************************************************************)
ERROR == "error"
WARNING == "warning"
SUGGESTION == "suggestion"
INFO == "info"

FeedbackType == {ERROR, WARNING, SUGGESTION, INFO}

CodeFeedback(file, line, type, message, severity) ==
    [file |-> file, line |-> line, type |-> type,
     message |-> message, severity |-> severity]

(***************************************************************************)
(* CodeAnalyzer._parse_diff.  The dict `files` is a sequence of            *)
(* [path, changes] entries in insertion order; assigning an existing key   *)
(* replaces its value in place.  current_file = None is [set |-> FALSE].   *)
(***************************************************************************)
HasKey(files, k) == \E i \in 1..Len(files) : files[i].path = k

DictPut(files, k, v) ==
    IF HasKey(files, k)
    THEN [i \in 1..Len(files) |->
            IF files[i].path = k THEN [path |-> k, changes |-> v] ELSE files[i]]
    ELSE Append(files, [path |-> k, changes |-> v])

NoFile == [set |-> FALSE, path |-> ""]

\* `if current_file:` is false for None and for the empty string
Truthy(current_file) == current_file.set /\ current_file.path # ""

\* one iteration of the loop over diff_content.split('\n')
ParseLine(st, line) ==
    IF StartsWith(line, "diff --git")
    THEN LET parts == Split(line, " ")
             last == parts[Len(parts)]
         IN  [files |-> IF Truthy(st.current_file)
                        THEN DictPut(st.files, st.current_file.path, st.current_changes)
                        ELSE st.files,
              current_file |-> [set |-> TRUE, path |-> SliceFrom(last, 2)],
              current_changes |-> <<>>]
    ELSE IF StartsWith(line, "+") /\ ~StartsWith(line, "+++")
         THEN [st EXCEPT !.current_changes = Append(@, SliceFrom(line, 1))]
         ELSE st

RECURSIVE ParseLoop(_, _, _)
ParseLoop(st, lines, i) ==
    IF i > Len(lines) THEN st
    ELSE ParseLoop(ParseLine(st, lines[i]), lines, i + 1)

_parse_diff(diff_content) ==
    LET st == ParseLoop([files |-> <<>>, current_file |-> NoFile,
                         current_changes |-> <<>>],
                        Split(diff_content, "\n"), 1)
    IN  IF Truthy(st.current_file)
        THEN DictPut(st.files, st.current_file.path, st.current_changes)
        ELSE st.files

code_extensions ==
    <<".py", ".js", ".ts", ".jsx", ".tsx", ".java", ".cpp", ".c", ".cs",
      ".php", ".rb", ".go">>

\* _is_code_file with a substring test in place of the allow-list suffix test
_is_code_file_any_suffix(file_path) ==
    Contains(file_path, ".")

_is_code_file(file_path) ==
    \E k \in 1..Len(code_extensions) : EndsWith(file_path, code_extensions[k])

(***************************************************************************)
(* The rule tables of CodeAnalyzer.__init__ and re.search over them.       *)
(* re.IGNORECASE is matching the lowered literals on the lowered line      *)
(* (\s, \w and the punctuation are caseless).                              *)
(***************************************************************************)
security_patterns ==
    << [pattern |-> "eval\\s*\\(",
        message |-> "Avoid using eval() as it can execute arbitrary code"],
       [pattern |-> "exec\\s*\\(",
        message |-> "Avoid using exec() as it can execute arbitrary code"],
       [pattern |-> "subprocess\\.call\\s*\\(.*shell\\s*=\\s*True",
        message |-> "Avoid shell=True in subprocess calls"],
       [pattern |-> "sql.*\\+.*",
        message |-> "Potential SQL injection - use parameterized queries"],
       [pattern |-> "password\\s*=\\s*[\"'][^\"']*[\"']",
        message |-> "Hardcoded password detected"],
       [pattern |-> "api_key\\s*=\\s*[\"'][^\"']*[\"']",
        message |-> "Hardcoded API key detected"] >>

quality_patterns ==
    << [pattern |-> "def\\s+\\w+\\([^)]*\\):\\s*$",
        message |-> "Function missing docstring"],
       [pattern |-> "class\\s+\\w+.*:\\s*$",
        message |-> "Class missing docstring"],
       [pattern |-> "print\\s*\\(",
        message |-> "Consider using logging instead of print statements"],
       [pattern |-> "TODO|FIXME|HACK",
        message |-> "TODO/FIXME comment found - consider addressing"] >>

\* lit \s* next, with lit starting at i
LitSpacesLit(s, i, lit, next) ==
    /\ LitAt(s, i, lit)
    /\ \E j \in (i + Len(lit))..Len(s) :
          AllSpace(s, i + Len(lit), j - 1) /\ LitAt(s, j, next)

IsQuote(c) == c \in {"\"", "'"}

\* name \s* = \s* ["'] [^"']* ["'] , with name starting at i
QuotedAssignAt(s, i, name) ==
    /\ LitAt(s, i, name)
    /\ \E e \in (i + Len(name))..Len(s) :
          /\ AllSpace(s, i + Len(name), e - 1)
          /\ At(s, e) = "="
          /\ \E q \in (e + 1)..Len(s) :
                /\ AllSpace(s, e + 1, q - 1)
                /\ IsQuote(At(s, q))
                /\ \E r \in (q + 1)..Len(s) :
                      /\ IsQuote(At(s, r))
                      /\ \A k \in (q + 1)..(r - 1) : ~IsQuote(At(s, k))

\* kw \s+ \w+ \( [^)]* \) : , with kw starting at i; toEnd adds \s*$
DefSigAt(s, i, kw, toEnd) ==
    /\ LitAt(s, i, kw)
    /\ \E a \in (i + Len(kw) + 1)..Len(s) :
          /\ AllSpace(s, i + Len(kw), a - 1)
          /\ \E b \in (a + 1)..Len(s) :
                /\ AllWord(s, a, b - 1)
                /\ At(s, b) = "("
                /\ \E c \in (b + 1)..Len(s) :
                      /\ At(s, c) = ")"
                      /\ \A k \in (b + 1)..(c - 1) : At(s, k) # ")"
                      /\ At(s, c + 1) = ":"
                      /\ (toEnd => AllSpace(s, c + 2, Len(s)))

\* class \s+ \w+ .* : \s* $ , with class starting at i
ClassSigAt(s, i) ==
    /\ LitAt(s, i, "class")
    /\ \E a \in (i + 6)..Len(s) :
          /\ AllSpace(s, i + 5, a - 1)
          /\ IsWord(At(s, a))
          /\ \E m \in (a + 1)..Len(s) :
                At(s, m) = ":" /\ AllSpace(s, m + 1, Len(s))

\* subprocess\.call \s* \( .* shell \s* = \s* True
ShellTrueAt(s, i) ==
    /\ LitAt(s, i, "subprocess.call")
    /\ \E p \in (i + 15)..Len(s) :
          /\ AllSpace(s, i + 15, p - 1)
          /\ At(s, p) = "("
          /\ \E h \in (p + 1)..Len(s) :
                /\ LitAt(s, h, "shell")
                /\ \E e \in (h + 5)..Len(s) :
                      /\ AllSpace(s, h + 5, e - 1)
                      /\ At(s, e) = "="
                      /\ \E t \in (e + 1)..Len(s) :
                            AllSpace(s, e + 1, t - 1) /\ LitAt(s, t, "true")

\* re.search(pattern, line, re.IGNORECASE) is not None
re_search(pattern, line) ==
    LET s == Lower(line)
        n == Len(s)
    IN  CASE pattern = security_patterns[1].pattern ->
               \E i \in 1..n : LitSpacesLit(s, i, "eval", "(")
          [] pattern = security_patterns[2].pattern ->
               \E i \in 1..n : LitSpacesLit(s, i, "exec", "(")
          [] pattern = security_patterns[3].pattern ->
               \E i \in 1..n : ShellTrueAt(s, i)
          [] pattern = security_patterns[4].pattern ->
               \E i \in 1..n : LitAt(s, i, "sql") /\ \E j \in (i + 3)..n : At(s, j) = "+"
          [] pattern = security_patterns[5].pattern ->
               \E i \in 1..n : QuotedAssignAt(s, i, "password")
          [] pattern = security_patterns[6].pattern ->
               \E i \in 1..n : QuotedAssignAt(s, i, "api_key")
          [] pattern = quality_patterns[1].pattern ->
               \E i \in 1..n : DefSigAt(s, i, "def", TRUE)
          [] pattern = quality_patterns[2].pattern ->
               \E i \in 1..n : ClassSigAt(s, i)
          [] pattern = quality_patterns[3].pattern ->
               \E i \in 1..n : LitSpacesLit(s, i, "print", "(")
          [] pattern = quality_patterns[4].pattern ->
               Contains(s, "todo") \/ Contains(s, "fixme") \/ Contains(s, "hack")

(***************************************************************************)
(* The rule engine.  A call of re.search either answers or raises; `fault` *)
(* names the pattern whose evaluation raises (NoFault: none does, which is *)
(* the case of the well-formed table above on str lines).  The loops have  *)
(* no handler, so a raise leaves them at once.                             *)
(***************************************************************************)
NoFault == "none"

RECURSIVE CheckLoop(_, _, _, _, _)
CheckLoop(patterns, line, fault, k, issues) ==
    IF k > Len(patterns) THEN [raised |-> FALSE, issues |-> issues]
    ELSE IF patterns[k].pattern = fault
         THEN [raised |-> TRUE, issues |-> issues]
         ELSE CheckLoop(patterns, line, fault, k + 1,
                        IF re_search(patterns[k].pattern, line)
                        THEN Append(issues, patterns[k].message)
                        ELSE issues)

_check_security_patterns(line, fault) ==
    CheckLoop(security_patterns, line, fault, 1, <<>>)

_check_quality_patterns(line, fault) ==
    CheckLoop(quality_patterns, line, fault, 1, <<>>)

TypeHintMessage == "Consider adding type hints for better code clarity"
LongLineMessage == "Line exceeds recommended length (88 characters)"
ImportMessage == "Verify that this import is actually used"

MaxLineLength == 88

_analyze_python_line(line) ==
    LET hint == IF DefSigAt(line, 1, "def", FALSE) /\ ~Contains(line, "->")
                THEN << [type |-> SUGGESTION, message |-> TypeHintMessage,
                         severity |-> 2] >>
                ELSE <<>>
        long == IF Len(Strip(line)) > MaxLineLength
                THEN << [type |-> WARNING, message |-> LongLineMessage,
                         severity |-> 2] >>
                ELSE <<>>
        imp  == IF StartsWith(Strip(line), "import ") /\ ~Contains(line, "#")
                THEN << [type |-> INFO, message |-> ImportMessage,
                         severity |-> 1] >>
                ELSE <<>>
    IN  hint \o long \o imp

\* the findings one issue list contributes, in list order
IssueFeedback(file_path, line_num, issues, type, severity) ==
    [k \in 1..Len(issues) |->
        CodeFeedback(file_path, line_num, type, issues[k], severity)]

\* LineFeedback with the quality block placed before the security block
LineFeedback_quality_first(file_path, line_num, line_content, fault) ==
    LET sec == _check_security_patterns(line_content, fault)
        qua == _check_quality_patterns(line_content, fault)
        py  == IF EndsWith(file_path, ".py")
               THEN _analyze_python_line(line_content) ELSE <<>>
    IN  IF sec.raised \/ qua.raised
        THEN [raised |-> TRUE, feedback |-> <<>>]
        ELSE [raised |-> FALSE,
              feedback |->
                 IssueFeedback(file_path, line_num, qua.issues, WARNING, 3)
                 \o IssueFeedback(file_path, line_num, sec.issues, ERROR, 5)
                 \o [k \in 1..Len(py) |->
                       CodeFeedback(file_path, line_num, py[k].type,
                                    py[k].message, py[k].severity)]]

\* the body of the loop of _analyze_file_changes for one added line
LineFeedback(file_path, line_num, line_content, fault) ==
    LET sec == _check_security_patterns(line_content, fault)
        qua == _check_quality_patterns(line_content, fault)
        py  == IF EndsWith(file_path, ".py")
               THEN _analyze_python_line(line_content) ELSE <<>>
    IN  IF sec.raised \/ qua.raised
        THEN [raised |-> TRUE, feedback |-> <<>>]
        ELSE [raised |-> FALSE,
              feedback |->
                 IssueFeedback(file_path, line_num, sec.issues, ERROR, 5)
                 \o IssueFeedback(file_path, line_num, qua.issues, WARNING, 3)
                 \o [k \in 1..Len(py) |->
                       CodeFeedback(file_path, line_num, py[k].type,
                                    py[k].message, py[k].severity)]]

RECURSIVE FileLoop(_, _, _, _, _)
FileLoop(file_path, changes, fault, line_num, feedback) ==
    IF line_num > Len(changes) THEN [raised |-> FALSE, feedback |-> feedback]
    ELSE LET r == LineFeedback(file_path, line_num, changes[line_num], fault)
         IN  IF r.raised THEN [raised |-> TRUE, feedback |-> feedback]
             ELSE FileLoop(file_path, changes, fault, line_num + 1,
                           feedback \o r.feedback)

_analyze_file_changes(file_path, changes, fault) ==
    FileLoop(file_path, changes, fault, 1, <<>>)

(***************************************************************************)
(* CodeAnalyzer._calculate_score.  total_penalty takes multiples of 0.5,   *)
(* which binary floating point holds exactly, so it is kept as the integer *)
(* number of halves; int() truncates toward zero.                          *)
(***************************************************************************)
Max(a, b) == IF a >= b THEN a ELSE b
Min(a, b) == IF a <= b THEN a ELSE b

\* PenaltyHalves with the error penalty subtracted instead of added
PenaltyHalves_error_subtracts(item) ==
    CASE item.type = ERROR -> 0 - item.severity * 3 * 2
      [] item.type = WARNING -> item.severity * 2 * 2
      [] item.type = SUGGESTION -> item.severity * 1 * 2
      [] OTHER -> item.severity

\* PenaltyHalves with each info penalty truncated to an integer when added
PenaltyHalves_rounded(item) ==
    CASE item.type = ERROR -> item.severity * 3 * 2
      [] item.type = WARNING -> item.severity * 2 * 2
      [] item.type = SUGGESTION -> item.severity * 1 * 2
      [] OTHER -> (item.severity \div 2) * 2

\* twice the penalty one finding adds
PenaltyHalves(item) ==
    CASE item.type = ERROR -> item.severity * 3 * 2
      [] item.type = WARNING -> item.severity * 2 * 2
      [] item.type = SUGGESTION -> item.severity * 1 * 2
      [] OTHER -> item.severity

RECURSIVE PenaltyLoop(_, _, _)
PenaltyLoop(feedback, k, total) ==
    IF k > Len(feedback) THEN total
    ELSE PenaltyLoop(feedback, k + 1, total + PenaltyHalves(feedback[k]))

\* int(x) for x given in halves
IntOfHalves(h) == IF h >= 0 THEN h \div 2 ELSE -((-h) \div 2)

\* _calculate_score without the clamps of its last statement
_calculate_score_unclamped(feedback) ==
    IF Len(feedback) = 0 THEN 100
    ELSE IntOfHalves(200 - PenaltyLoop(feedback, 1, 0))

_calculate_score(feedback) ==
    IF Len(feedback) = 0 THEN 100
    ELSE LET total_penalty == PenaltyLoop(feedback, 1, 0)
         IN  IntOfHalves(Max(0, 200 - Min(200, total_penalty)))

(***************************************************************************)
(* CodeAnalyzer._generate_summary (its quality clause and the two counts   *)
(* it prints) and CodeAnalyzer._generate_recommendations.                  *)
(***************************************************************************)
CountType(feedback, type) ==
    Cardinality({k \in 1..Len(feedback) : feedback[k].type = type})

_generate_summary(feedback, score) ==
    [quality |-> IF score >= 90
                 THEN "Excellent code quality with minimal issues. "
                 ELSE IF score >= 70
                      THEN "Good code quality with some areas for improvement. "
                      ELSE "Code quality needs attention with several issues to address. ",
     error_count |-> CountType(feedback, ERROR),
     warning_count |-> CountType(feedback, WARNING)]

RecCritical == "Address all critical security and error issues before merging"
RecSecurity == "Review and fix security vulnerabilities"
RecDocs == "Add documentation to improve code maintainability"
RecGood == "Great work! Code looks good to merge."

\* _generate_recommendations adding the positive message whenever no error
\* was found, instead of whenever nothing was recommended
_generate_recommendations_good_without_errors(feedback) ==
    LET error_count == CountType(feedback, ERROR)
        security_issues ==
            Cardinality({k \in 1..Len(feedback) :
                \/ Contains(Lower(feedback[k].message), "security")
                \/ Contains(Lower(feedback[k].message), "injection")})
        doc_issues ==
            Cardinality({k \in 1..Len(feedback) :
                Contains(Lower(feedback[k].message), "docstring")})
        r1 == IF error_count > 0 THEN <<RecCritical>> ELSE <<>>
        r2 == IF security_issues > 0 THEN Append(r1, RecSecurity) ELSE r1
        r3 == IF doc_issues > 0 THEN Append(r2, RecDocs) ELSE r2
    IN  IF error_count = 0 THEN Append(r3, RecGood) ELSE r3

_generate_recommendations(feedback) ==
    LET error_count == CountType(feedback, ERROR)
        security_issues ==
            Cardinality({k \in 1..Len(feedback) :
                \/ Contains(Lower(feedback[k].message), "security")
                \/ Contains(Lower(feedback[k].message), "injection")})
        doc_issues ==
            Cardinality({k \in 1..Len(feedback) :
                Contains(Lower(feedback[k].message), "docstring")})
        r1 == IF error_count > 0 THEN <<RecCritical>> ELSE <<>>
        r2 == IF security_issues > 0 THEN Append(r1, RecSecurity) ELSE r1
        r3 == IF doc_issues > 0 THEN Append(r2, RecDocs) ELSE r2
    IN  IF Len(r3) = 0 THEN Append(r3, RecGood) ELSE r3

(***************************************************************************)
(* The request handler analyze_pull_request with GitService.fetch_pr_data  *)
(* and CodeAnalyzer.analyze_changes, one step per await.                   *)
(***************************************************************************)
VARIABLES
    pc,             \* where the handler stands
    netloc,         \* host of request.repository_url
    rule_fault,     \* the pattern whose re.search raises, or NoFault
    diff_content,   \* pr_data.diff_content
    diff_sections,  \* the result of _parse_diff
    file_idx,       \* position of the loop over diff_sections.items()
    feedback,       \* the local list of analyze_changes
    response,       \* what the handler answered
    findings,       \* a findings list handed to the scorer and the report builder
    score,          \* _calculate_score(findings)
    recommendations,\* _generate_recommendations(findings)
    added           \* how many findings were appended to `findings`

vars == <<pc, netloc, rule_fault, diff_content, diff_sections, file_idx,
          feedback, response, findings, score, recommendations, added>>

handlerVars == <<pc, netloc, rule_fault, diff_content, diff_sections,
                 file_idx, feedback, response>>

scorerVars == <<findings, score, recommendations, added>>

NoResponse == [status_code |-> 0, detail |-> "", report |-> <<>>]

\* HTTPException(status_code=400, detail=str(e))
HTTPException(detail) == [status_code |-> 400, detail |-> detail, report |-> <<>>]

\* a PRAnalysisResponse returned by the handler, as the one-element list of reports
Returned(analysis_result) ==
    [status_code |-> 200, detail |-> "", report |-> <<analysis_result>>]

NetlocInputs == {"github.com", "gitlab.com", "bitbucket.org", "sourcehut.org"}

FaultInputs ==
    {NoFault, security_patterns[5].pattern, quality_patterns[3].pattern}

DiffLineInputs ==
    { "diff --git a/app.py b/app.py",
      "diff --git a/README.md b/README.md",
      "diff --git a/lib.js lib.js",
      "diff --git a/x b/",
      "+password = \"hunter2\"",
      "+def login(password='x'):",
      "+Print(EVAL (sql + 'x'))  # todo",
      "+import aaaaaaaaaaaaaaaaaaaaaaaaaaaaaaaaaaaaaaaaaaaaaaaaaaaaaaaaaaaaaaaaaaaaaaaaaaaaaaaaaaaaa",
      "+++ b/app.py",
      "-removed" }

DiffInputs ==
    { Join(lines, "\n") :
        lines \in UNION { [1..n -> DiffLineInputs] : n \in 0..MaxDiffLines } }

FetchFailures ==
    { "Failed to fetch PR data: 404",
      "Failed to fetch PR files: 404",
      "Failed to get diff: clone failed" }

HandlerInit ==
    /\ pc = "idle"
    /\ netloc = ""
    /\ rule_fault = NoFault
    /\ diff_content = ""
    /\ diff_sections = <<>>
    /\ file_idx = 0
    /\ feedback = <<>>
    /\ response = NoResponse

Init ==
    /\ HandlerInit
    /\ findings = <<>>
    /\ score = _calculate_score(<<>>)
    /\ recommendations = _generate_recommendations(<<>>)
    /\ added = 0

\* POST /api/analyze-pr arrives
Request(host, fault) ==
    /\ pc = "idle"
    /\ pc' = "fetch"
    /\ netloc' = host
    /\ rule_fault' = fault
    /\ UNCHANGED <<diff_content, diff_sections, file_idx, feedback, response>>
    /\ UNCHANGED scorerVars

IsGithub == Contains(netloc, "github.com")
IsGitlab == ~IsGithub /\ Contains(netloc, "gitlab.com")
IsBitbucket == ~IsGithub /\ ~IsGitlab /\ Contains(netloc, "bitbucket.org")

\* Fail answering with a report over the findings gathered so far
Fail_partial_report(detail) ==
    /\ pc' = "responded"
    /\ LET s == _calculate_score(feedback)
       IN  response' = Returned([score |-> s,
                                 feedback |-> feedback,
                                 summary |-> _generate_summary(feedback, s),
                                 recommendations |-> _generate_recommendations(feedback)])
    /\ UNCHANGED <<netloc, rule_fault, diff_content, diff_sections, file_idx,
                   feedback>>
    /\ UNCHANGED scorerVars

\* the handler's except clause
Fail(detail) ==
    /\ pc' = "responded"
    /\ response' = HTTPException(detail)
    /\ UNCHANGED <<netloc, rule_fault, diff_content, diff_sections, file_idx,
                   feedback>>
    /\ UNCHANGED scorerVars

\* fetch_pr_data: raise ValueError("Unsupported Git platform")
FetchUnsupported ==
    /\ pc = "fetch"
    /\ ~IsGithub /\ ~IsGitlab /\ ~IsBitbucket
    /\ Fail("Unsupported Git platform")

\* _fetch_gitlab_pr, _fetch_bitbucket_pr: raise NotImplementedError
FetchNotImplemented ==
    /\ pc = "fetch"
    /\ IsGitlab \/ IsBitbucket
    /\ Fail(IF IsGitlab THEN "GitLab integration coming soon"
            ELSE "Bitbucket integration coming soon")

\* _fetch_github_pr, _get_pr_diff: a non-200 answer or a failed clone/diff
FetchGithubFailed(cause) ==
    /\ pc = "fetch"
    /\ IsGithub
    /\ Fail(cause)

\* _fetch_github_pr returns PRData
FetchGithubOk ==
    /\ pc = "fetch"
    /\ IsGithub
    /\ pc' = "analyze"
    /\ \E diff \in DiffInputs : diff_content' = diff
    /\ UNCHANGED <<netloc, rule_fault, diff_sections, file_idx, feedback, response>>
    /\ UNCHANGED scorerVars

\* analyze_changes up to its loop
ParseDiff ==
    /\ pc = "analyze"
    /\ pc' = "files"
    /\ diff_sections' = _parse_diff(diff_content)
    /\ file_idx' = 1
    /\ feedback' = <<>>
    /\ UNCHANGED <<netloc, rule_fault, diff_content, response>>
    /\ UNCHANGED scorerVars

\* one iteration of the loop over diff_sections.items(), file not eligible
SkipFile ==
    /\ pc = "files"
    /\ file_idx <= Len(diff_sections)
    /\ ~_is_code_file(diff_sections[file_idx].path)
    /\ file_idx' = file_idx + 1
    /\ UNCHANGED <<pc, netloc, rule_fault, diff_content, diff_sections, feedback,
                   response>>
    /\ UNCHANGED scorerVars

\* one iteration of the loop, file eligible and its analysis returns
AnalyzeFile ==
    /\ pc = "files"
    /\ file_idx <= Len(diff_sections)
    /\ _is_code_file(diff_sections[file_idx].path)
    /\ LET r == _analyze_file_changes(diff_sections[file_idx].path,
                                      diff_sections[file_idx].changes, rule_fault)
       IN  /\ ~r.raised
           /\ feedback' = feedback \o r.feedback
    /\ file_idx' = file_idx + 1
    /\ UNCHANGED <<pc, netloc, rule_fault, diff_content, diff_sections, response>>
    /\ UNCHANGED scorerVars

\* AnalyzeFileRaises with the exception swallowed: the handler answers with
\* a report over the findings gathered before the raise
AnalyzeFileRaises_partial_report ==
    /\ pc = "files"
    /\ file_idx <= Len(diff_sections)
    /\ _is_code_file(diff_sections[file_idx].path)
    /\ _analyze_file_changes(diff_sections[file_idx].path,
                             diff_sections[file_idx].changes, rule_fault).raised
    /\ Fail_partial_report("error raised by re.search")

\* one iteration of the loop, the file's analysis raises into the handler
AnalyzeFileRaises ==
    /\ pc = "files"
    /\ file_idx <= Len(diff_sections)
    /\ _is_code_file(diff_sections[file_idx].path)
    /\ _analyze_file_changes(diff_sections[file_idx].path,
                             diff_sections[file_idx].changes, rule_fault).raised
    /\ Fail("error raised by re.search")

\* analyze_changes after its loop, and the handler's return
Finish ==
    /\ pc = "files"
    /\ file_idx > Len(diff_sections)
    /\ pc' = "responded"
    /\ LET s == _calculate_score(feedback)
       IN  response' = Returned([score |-> s,
                                 feedback |-> feedback,
                                 summary |-> _generate_summary(feedback, s),
                                 recommendations |-> _generate_recommendations(feedback)])
    /\ UNCHANGED <<netloc, rule_fault, diff_content, diff_sections, file_idx,
                   feedback>>
    /\ UNCHANGED scorerVars

Next ==
    \/ \E host \in NetlocInputs, fault \in FaultInputs : Request(host, fault)
    \/ FetchUnsupported
    \/ FetchNotImplemented
    \/ \E cause \in FetchFailures : FetchGithubFailed(cause)
    \/ FetchGithubOk
    \/ ParseDiff
    \/ SkipFile
    \/ AnalyzeFile
    \/ AnalyzeFileRaises
    \/ Finish

Spec == Init /\ [][Next]_vars

(***************************************************************************)
(* The scorer and the report builder on arbitrary findings lists: a list   *)
(* of error findings to start from, then findings appended one at a time.  *)
(***************************************************************************)
BaseErrors(n) ==
    [k \in 1..n |-> CodeFeedback("app.py", 1, ERROR, "finding", 5)]

ScoreInputs ==
    { CodeFeedback("app.py", 1, t, "finding", sev) :
        t \in FeedbackType, sev \in 1..5 }

MessageInputs ==
    { "Hardcoded password detected",
      "Potential SQL injection - use parameterized queries",
      "Function missing docstring",
      "Insecure: SECURITY hotspot" }

RecInputs ==
    { CodeFeedback("app.py", 1, t, m, 3) :
        t \in FeedbackType, m \in MessageInputs }

AddFinding(f) ==
    /\ added < MaxAdded
    /\ findings' = Append(findings, f)
    /\ score' = _calculate_score(findings')
    /\ recommendations' = _generate_recommendations(findings')
    /\ added' = added + 1
    /\ UNCHANGED handlerVars

ScoreInit ==
    /\ HandlerInit
    /\ \E n \in 0..MaxBaseErrors : findings = BaseErrors(n)
    /\ score = _calculate_score(findings)
    /\ recommendations = _generate_recommendations(findings)
    /\ added = 0

ScoreNext == \E f \in ScoreInputs : AddFinding(f)

ScoreSpec == ScoreInit /\ [][ScoreNext]_vars

RecNext == \E f \in RecInputs : AddFinding(f)

RecSpec == Init /\ [][RecNext]_vars

(***************************************************************************)
(* Properties.                                                             *)
(***************************************************************************)
DiffLines == Split(diff_content, "\n")

MarkerLines == {i \in 1..Len(DiffLines) : StartsWith(DiffLines[i], "diff --git")}

\* analyze_changes has parsed the diff of this request
Parsed == pc \in {"files", "responded"} /\ file_idx >= 1

\* C1: the parsed map has exactly one entry per line of the diff that begins
\* with "diff --git" (N markers give N entries, none gives the empty map).
C1_OneEntryPerMarker ==
    (Parsed /\ rule_fault = NoFault)
        => Len(diff_sections) = Cardinality(MarkerLines)

\* the final space-separated token of a marker line
LastToken(line) == Split(line, " ")[Len(Split(line, " "))]

\* the token starts with a side indicator such as a/ or b/
HasSidePrefix(tok) == Len(tok) >= 2 /\ At(tok, 2) = "/"

\* C7: when the final token of a "diff --git" line lacks the two-character
\* side prefix, that token itself, unstripped, is the file path of the section.
C7_UnprefixedPathKept ==
    (Parsed /\ rule_fault = NoFault) =>
        \A i \in MarkerLines :
            ~HasSidePrefix(LastToken(DiffLines[i]))
                => HasKey(diff_sections, LastToken(DiffLines[i]))

\* C2: the score of every findings list is an integer from 0 to 100, and the
\* score of the empty list is 100.
C2_ScoreBounds ==
    /\ score \in 0..100
    /\ (findings = <<>> => score = 100)

\* C2 witness: a non-empty list whose penalty exceeds 100, scored 0
C2_Witness ==
    /\ added > 0
    /\ PenaltyLoop(findings, 1, 0) > 200
    /\ score = 0

\* C3: appending one error finding to a findings list never increases the score.
C3_ErrorNeverRaisesScore ==
    [][ ( /\ Len(findings') = Len(findings) + 1
          /\ findings'[Len(findings')].type = ERROR )
        => score' <= score ]_vars

\* C3 witness: an error finding was appended to a non-empty list and the
\* score is still above the floor
C3_Witness ==
    /\ added > 0
    /\ Len(findings) >= 2
    /\ findings[Len(findings)].type = ERROR
    /\ score > 0
    /\ score < 100

\* number of findings of one kind and severity
CountKind(fb, type, sev) ==
    Cardinality({k \in 1..Len(fb) : fb[k].type = type /\ fb[k].severity = sev})

\* sum of the severities of the findings of one kind
SeveritySum(fb, type) ==
    1 * CountKind(fb, type, 1) + 2 * CountKind(fb, type, 2)
    + 3 * CountKind(fb, type, 3) + 4 * CountKind(fb, type, 4)
    + 5 * CountKind(fb, type, 5)

\* twice the penalty P of a findings list, from its counts alone
TwicePenalty(fb) ==
    6 * SeveritySum(fb, ERROR) + 4 * SeveritySum(fb, WARNING)
    + 2 * SeveritySum(fb, SUGGESTION) + SeveritySum(fb, INFO)

\* C10: for a non-empty findings list the score is floor(100 - min(100, P)),
\* P the sum of severity x 3 (error), x 2 (warning), x 1 (suggestion) and
\* x 0.5 (info), rounded once at the end; P depends on the counts only, so
\* every ordering of the same findings scores the same.
C10_ScoreFormula ==
    Len(findings) > 0 =>
        /\ 2 * score <= 200 - Min(200, TwicePenalty(findings))
        /\ 200 - Min(200, TwicePenalty(findings)) < 2 * score + 2
        /\ (findings = << CodeFeedback("app.py", 1, SUGGESTION, "finding", 2),
                          CodeFeedback("app.py", 1, WARNING, "finding", 3) >>
               => score = 92)
        /\ (findings = << CodeFeedback("app.py", 1, ERROR, "finding", 5) >>
               => score = 85)

\* C10 witness: a list with a fractional penalty below 100, info finding first
C10_Witness ==
    /\ Len(findings) >= 2
    /\ findings[1].type = INFO
    /\ findings[2].type # INFO
    /\ TwicePenalty(findings) % 2 = 1
    /\ TwicePenalty(findings) < 200
    /\ 2 * score + 1 = 200 - TwicePenalty(findings)

HasError(fb) == \E k \in 1..Len(fb) : fb[k].type = ERROR

HasSecurityWord(fb) ==
    \E k \in 1..Len(fb) :
        \/ Contains(Lower(fb[k].message), "security")
        \/ Contains(Lower(fb[k].message), "injection")

HasDocstringWord(fb) ==
    \E k \in 1..Len(fb) : Contains(Lower(fb[k].message), "docstring")

\* C9: the recommendations are non-empty and without repeats; the triggered
\* messages come in the order critical issues, security, documentation; the
\* positive message is there exactly when none triggered, and then alone.
C9_Recommendations ==
    LET e == HasError(findings)
        s == HasSecurityWord(findings)
        d == HasDocstringWord(findings)
        r == recommendations
    IN  /\ Len(r) >= 1
        /\ \A i, j \in 1..Len(r) : i # j => r[i] # r[j]
        /\ r = (IF e \/ s \/ d
                THEN (IF e THEN <<RecCritical>> ELSE <<>>)
                     \o (IF s THEN <<RecSecurity>> ELSE <<>>)
                     \o (IF d THEN <<RecDocs>> ELSE <<>>)
                ELSE <<RecGood>>)
        /\ ((\E i \in 1..Len(r) : r[i] = RecGood) <=> ~(e \/ s \/ d))

\* C9 witness: findings without any error that trigger the security and the
\* documentation messages
C9_Witness ==
    /\ added > 0
    /\ ~HasError(findings)
    /\ recommendations = <<RecSecurity, RecDocs>>

\* the rule group of a finding: 1 security, 2 quality, 3 extension-specific
Group(f) ==
    IF \E k \in 1..Len(security_patterns) : security_patterns[k].message = f.message
    THEN 1
    ELSE IF \E k \in 1..Len(quality_patterns) : quality_patterns[k].message = f.message
         THEN 2 ELSE 3

\* the place of a finding's rule in the declaration order of its group
RuleIndex(f) ==
    CASE Group(f) = 1 ->
           CHOOSE k \in 1..Len(security_patterns) :
               security_patterns[k].message = f.message
      [] Group(f) = 2 ->
           CHOOSE k \in 1..Len(quality_patterns) :
               quality_patterns[k].message = f.message
      [] OTHER ->
           IF f.message = TypeHintMessage THEN 1
           ELSE IF f.message = LongLineMessage THEN 2 ELSE 3

SameLine(f, g) == f.file = g.file /\ f.line = g.line

\* C4: the findings of one added line are contiguous, ordered security
\* (error, 5), quality (warning, 3), extension-specific, and inside a group
\* in the declaration order of its rules.
C4_LineFindingsOrdered ==
    /\ \A i, j \in 1..Len(feedback) :
          (i < j /\ SameLine(feedback[i], feedback[j])) =>
              /\ \A k \in i..j : SameLine(feedback[i], feedback[k])
              /\ Group(feedback[i]) <= Group(feedback[j])
              /\ (Group(feedback[i]) = Group(feedback[j])
                    => RuleIndex(feedback[i]) < RuleIndex(feedback[j]))
    /\ \A i \in 1..Len(feedback) :
          /\ (Group(feedback[i]) = 1
                => feedback[i].type = ERROR /\ feedback[i].severity = 5)
          /\ (Group(feedback[i]) = 2
                => feedback[i].type = WARNING /\ feedback[i].severity = 3)

\* C4 witness: one added line with a security, a quality and an
\* extension-specific finding, in that order
C4_Witness ==
    \E i \in 1..(Len(feedback) - 2) :
        /\ SameLine(feedback[i], feedback[i + 1])
        /\ SameLine(feedback[i], feedback[i + 2])
        /\ Group(feedback[i]) = 1
        /\ Group(feedback[i + 1]) = 2
        /\ Group(feedback[i + 2]) = 3

\* the path carries one of the allow-listed source extensions
HasSourceExtension(path) ==
    \E k \in 1..Len(code_extensions) :
        LET ext == code_extensions[k]
        IN  Len(path) >= Len(ext) /\ SliceFrom(path, Len(path) - Len(ext)) = ext

\* no file with a source extension has an added line
NoSourceLineAdded ==
    \A i \in 1..Len(diff_sections) :
        HasSourceExtension(diff_sections[i].path) => diff_sections[i].changes = <<>>

\* C5: when no file with an allow-listed source extension has an added line,
\* the report has no findings, score 100 and only the positive recommendation.
C5_NothingToReview ==
    (pc = "responded" /\ file_idx >= 1 /\ NoSourceLineAdded) =>
        /\ response.status_code = 200
        /\ Len(response.report) = 1
        /\ response.report[1].feedback = <<>>
        /\ response.report[1].score = 100
        /\ response.report[1].recommendations = <<RecGood>>

\* C5 witness: a report on a diff whose only added lines are in a .md file
C5_Witness ==
    /\ pc = "responded"
    /\ file_idx >= 1
    /\ NoSourceLineAdded
    /\ response.status_code = 200
    /\ \E i \in 1..Len(diff_sections) :
          /\ EndsWith(diff_sections[i].path, ".md")
          /\ Len(diff_sections[i].changes) >= 1
          /\ re_search(security_patterns[5].pattern, diff_sections[i].changes[1])

RECURSIVE FullFeedback(_, _)
\* the findings of every eligible file from the i-th on, in file order
FullFeedback(sections, i) ==
    IF i > Len(sections) THEN <<>>
    ELSE (IF HasSourceExtension(sections[i].path)
          THEN _analyze_file_changes(sections[i].path, sections[i].changes,
                                     NoFault).feedback
          ELSE <<>>)
         \o FullFeedback(sections, i + 1)

\* C6: a request ends either with a complete report, computed over every
\* eligible file of the diff, or with a status 400 answer that has a textual
\* cause and no report; a failed fetch or a raise during the analysis gives
\* the second.
C6_ReportOrError ==
    pc = "responded" =>
        /\ \/ /\ response.status_code = 200
              /\ Len(response.report) = 1
              /\ file_idx > Len(diff_sections)
              /\ response.report[1].feedback = FullFeedback(diff_sections, 1)
              /\ response.report[1].score
                    = _calculate_score(response.report[1].feedback)
           \/ /\ response.status_code = 400
              /\ response.detail # ""
              /\ response.report = <<>>
        /\ (file_idx = 0 => response.status_code = 400)
        /\ (~Contains(netloc, "github.com") => response.status_code = 400)

\* C6 witness: the analysis raised after a first file was handled, and the
\* answer is the error alone
C6_Witness ==
    /\ pc = "responded"
    /\ file_idx > 1
    /\ file_idx <= Len(diff_sections)
    /\ response.status_code = 400
    /\ response.report = <<>>

\* C8: when the evaluation of one rule raises, the other rules, lines and
\* files are still evaluated and the request ends with a report.
C8_RuleFailureIsolated ==
    (pc = "responded" /\ file_idx >= 1) =>
        /\ response.status_code = 200
        /\ file_idx > Len(diff_sections)

====
